---- MODULE Spec2Model ----
(***************************************************************************)
(* A model of src/src/main.rs (canewsin/simple_blockchain): the account    *)
(* table (Blockchain::balances), the chain of sealed blocks                 *)
(* (Blockchain::chain), the proof-of-work sealer (Block::calculate_hash)    *)
(* and the block-build pipeline (Blockchain::add_block).                    *)
(*                                                                         *)
(* Strings are sequences of tokens: every decimal digit and every hex      *)
(* digit is a token of its own, so format!("{}", n), concatenation and     *)
(* ends_with are computed as the code computes them; a name such as        *)
(* "Master" is one token.  The SHA-256 / RandomX digest is an external     *)
(* capability; it is modelled by a small deterministic digest (Digest)     *)
(* that folds every token of its input and renders a hex string.           *)
(*                                                                         *)
(* u8 arithmetic keeps its width.  An overflowing `+=` or `-=` panics in a *)
(* build with overflow checks (debug) and wraps modulo 256 in a build      *)
(* without them (release); the variable `checked` is the build.            *)
(***************************************************************************)
EXTENDS Integers, Sequences, FiniteSets, Bags, TLC

VARIABLES balances, chain, checked, status, call

vars == <<balances, chain, checked, status, call>>

(***************************************************************************)
(* Bounds of the model.                                                    *)
(***************************************************************************)
\* the longest list of pending transactions handed to one add_block call
MaxTxs == 2
\* the largest value of the sealer's nonce counter (stands for i32::MAX)
NonceMax == 11
\* the number of direct update_bal calls explored on one ledger
MaxOps == 2
\* the largest block index handed to the sealer when it is checked alone
MaxSealIndex == 1

\* F(v), with v evaluated once: a `let` of the code that is used several times
Bind(v, F(_)) == CHOOSE r \in { F(x) : x \in {v} } : TRUE

(***************************************************************************)
(* Strings.                                                                *)
(***************************************************************************)
Digits == <<"0", "1", "2", "3", "4", "5", "6", "7", "8", "9">>

\* format!("{}", n) of an unsigned integer
RECURSIVE Dec(_)
Dec(n) == IF n < 10 THEN <<Digits[n + 1]>> ELSE Dec(n \div 10) \o <<Digits[(n % 10) + 1]>>

\* format!("{}", n) of a signed integer
DecSigned(n) == IF n < 0 THEN <<"-">> \o Dec(0 - n) ELSE Dec(n)

\* str::ends_with
ends_with(s, t) ==
    /\ Len(t) <= Len(s)
    /\ SubSeq(s, Len(s) - Len(t) + 1, Len(s)) = t

\* every token a string of the model is made of; a token's code is its byte value
TokenList ==
    <<"0", "1", "2", "3", "4", "5", "6", "7", "8", "9",
      "a", "b", "c", "d", "e", "f",
      ":", ";", "-",
      "Master", "Alice", "Bob", "Zed", "Genesis Block", "Block 1 Data">>

Tokens == { TokenList[i] : i \in 1..Len(TokenList) }

Code == [t \in Tokens |-> (CHOOSE i \in 1..Len(TokenList) : TokenList[i] = t) - 1]

(***************************************************************************)
(* The digest provider.  The rendered digests are the entries of Codebook: *)
(* lowercase hex strings, among them the tails of the reference hashes, so *)
(* that a nonce search can succeed, and two that are the tail of none.     *)
(***************************************************************************)
Codebook ==
    << <<"f", "5", "7", "2", "0">>, <<"7", "0", "0", "5", "f">>,
       <<"5", "c", "6", "b", "e">>, <<"a", "c", "d", "4", "7">>,
       <<"6", "f", "4", "0", "7">>, <<"1", "5", "1", "f", "d">>,
       <<"6", "b", "a", "d", "b">>, <<"a", "6", "4", "a", "a">>,
       <<"0", "3", "e", "1", "9">>, <<"9", "9", "c", "2", "3">> >>

\* 7^k modulo the number of digests, for k modulo 4
Pow7 == <<1, 7, 9, 3>>

\* The digest's state after absorbing the tokens of s one after the other from
\* state 0, each by h <- (7 * h + Code[token]) modulo the number of digests:
\* the sum of Code[s[i]] * 7^(Len(s) - i).  The sum is taken as the size of a
\* bag that holds position i that many times, and once more.
Fold(s) ==
    Bind(s, LAMBDA x :
        (BagCardinality([i \in 1..Len(x) |->
                            Code[x[i]] * Pow7[((Len(x) - i) % 4) + 1] + 1])
         - Len(x)) % Len(Codebook))

\* hasher.update(input); format!("{:x}", hasher.finalize())
Digest(input) == Codebook[Fold(input) + 1]

(***************************************************************************)
(* Program constants.                                                      *)
(***************************************************************************)
\* the tails of the eight reference hashes (const HASHES)
HASHES ==
    << <<"f", "5", "7", "2", "0">>, <<"7", "0", "0", "5", "f">>,
       <<"5", "c", "6", "b", "e">>, <<"a", "c", "d", "4", "7">>,
       <<"6", "f", "4", "0", "7">>, <<"1", "5", "1", "f", "d">>,
       <<"6", "b", "a", "d", "b">>, <<"a", "6", "4", "a", "a">> >>

\* const BALANCES
BALANCES == << [addr |-> "Master", bal |-> 150], [addr |-> "Alice", bal |-> 20] >>

\* the difficulty add_block passes to Block::new
DIFFICULTY == 4
\* the balance of an account update_bal creates
BOOTSTRAP == 10
\* the amount update_bal adds when it is given no amount (the reward)
REWARD == 10
\* the value of the coinbase transaction
COINBASE_VALUE == 10
\* the number of values of a u8
U8 == 256

(***************************************************************************)
(* Block::calculate_hash, the sealer.  The result is                       *)
(*   [kind |-> "ok", hash, nonce]  the loop broke at a matching digest,    *)
(*   [kind |-> "panic", ...]        the call panicked,                      *)
(*   [kind |-> "hang", ...]         the loop never ends.                    *)
(***************************************************************************)
SealResult(kind, h, nonce) == [kind |-> kind, hash |-> h, nonce |-> nonce]

\* format!("{}{}{}{}{}", index, timestamp, data, previous_hash, nonce)
header(index, timestamp, data, previous_hash, nonce) ==
    Dec(index) \o timestamp \o data \o previous_hash \o DecSigned(nonce)

\* search, breaking at the first digest whatever it ends with
search_no_test(index, timestamp, data, previous_hash, trailing, nonce, wrapped, chk) ==
    SealResult("ok", Digest(header(index, timestamp, data, previous_hash, nonce)), nonce)

\* the loop of calculate_hash from `nonce` on; `wrapped` says the counter has
\* wrapped round, which an unchecked `nonce += 1` does at NonceMax
RECURSIVE search(_, _, _, _, _, _, _, _)
search(index, timestamp, data, previous_hash, trailing, nonce, wrapped, chk) ==
    Bind(Digest(header(index, timestamp, data, previous_hash, nonce)), LAMBDA _hash :
        IF ends_with(_hash, trailing)
        THEN SealResult("ok", _hash, nonce)
        ELSE IF nonce = NonceMax
             THEN IF chk
                  THEN SealResult("panic", <<>>, nonce)
                  ELSE search(index, timestamp, data, previous_hash, trailing,
                              0 - NonceMax - 1, TRUE, chk)
             ELSE IF nonce = -1 /\ wrapped
                  THEN SealResult("hang", <<>>, nonce)
                  ELSE search(index, timestamp, data, previous_hash, trailing,
                              nonce + 1, wrapped, chk))

\* calculate_hash, its counter starting at 1
calculate_hash_from_one(index, timestamp, data, previous_hash, btc_hash, difficulty, chk) ==
    IF difficulty > Len(btc_hash)
    THEN SealResult("panic", <<>>, 0)
    ELSE LET i == Len(btc_hash) - difficulty
             trailing == SubSeq(btc_hash, i + 1, Len(btc_hash))
         IN  search(index, timestamp, data, previous_hash, trailing, 1, FALSE, chk)

calculate_hash(index, timestamp, data, previous_hash, btc_hash, difficulty, chk) ==
    IF difficulty > Len(btc_hash)
    THEN SealResult("panic", <<>>, 0)
    ELSE LET i == Len(btc_hash) - difficulty
             trailing == SubSeq(btc_hash, i + 1, Len(btc_hash))
         IN  search(index, timestamp, data, previous_hash, trailing, 0, FALSE, chk)

\* Block::new, numbering the block one too high
Block_new_next_index(index, data, previous_hash, btc_hash, difficulty, chk) ==
    LET timestamp == Dec(index)
        sealed == calculate_hash(index, timestamp, data, previous_hash, btc_hash,
                                 difficulty, chk)
    IN  [kind |-> sealed.kind,
         nonce |-> sealed.nonce,
         block |-> [index |-> index + 1,
                    timestamp |-> timestamp,
                    data |-> data,
                    previous_hash |-> previous_hash,
                    hash |-> sealed.hash,
                    btc_hash |-> btc_hash,
                    difficulty |-> difficulty]]

\* Block::new (feature reproduce_blocks: the timestamp is the index); the
\* result is the sealer's, with the block in place of the hash when it is "ok"
Block_new(index, data, previous_hash, btc_hash, difficulty, chk) ==
    LET timestamp == Dec(index)
    IN  Bind(calculate_hash(index, timestamp, data, previous_hash, btc_hash,
                            difficulty, chk), LAMBDA sealed :
        [kind |-> sealed.kind,
         nonce |-> sealed.nonce,
         block |-> [index |-> index,
                    timestamp |-> timestamp,
                    data |-> data,
                    previous_hash |-> previous_hash,
                    hash |-> sealed.hash,
                    btc_hash |-> btc_hash,
                    difficulty |-> difficulty]])

(***************************************************************************)
(* Trasaction.                                                             *)
(***************************************************************************)
Trasaction(timestamp, from, to, value, data) ==
    [timestamp |-> timestamp, from |-> from, to |-> to, value |-> value, data |-> data]

\* Trasaction::hash: the digest of "timestamp:from:to:value:value"
Trasaction_hash(t) ==
    Digest(Dec(t.timestamp) \o <<":", t.from, ":", t.to, ":">>
           \o Dec(t.value) \o <<":">> \o Dec(t.value))

\* Trasaction::to_str: "timestamp:from:to:value:data:hash;"
to_str(t) ==
    Dec(t.timestamp) \o <<":", t.from, ":", t.to, ":">> \o Dec(t.value) \o <<":">>
    \o t.data \o <<":">> \o Trasaction_hash(t) \o <<";">>

\* `value as u8`
as_u8(v) == v % U8

(***************************************************************************)
(* The ledger: Blockchain::balances, a Vec<Account>.                       *)
(***************************************************************************)
\* Option<u8>
None == <<>>
Some(v) == <<v>>

\* Blockchain::get_bal: the position of the first account of `addr`, 0 for None
get_bal(b, addr) ==
    IF \E i \in 1..Len(b) : b[i].addr = addr
    THEN CHOOSE i \in 1..Len(b) :
             /\ b[i].addr = addr
             /\ \A j \in 1..(i - 1) : b[j].addr # addr
    ELSE 0

\* the balance add_block reads for a sender: find_map(..).unwrap_or(0)
acc_bal_of(b, addr) == IF get_bal(b, addr) = 0 THEN 0 ELSE b[get_bal(b, addr)].bal

\* a.bal -= x on a u8
SubU8(b, i, x, chk) ==
    IF b[i].bal < x
    THEN IF chk
         THEN [balances |-> b, panic |-> TRUE]
         ELSE [balances |-> [b EXCEPT ![i].bal = (b[i].bal - x) + U8], panic |-> FALSE]
    ELSE [balances |-> [b EXCEPT ![i].bal = b[i].bal - x], panic |-> FALSE]

\* a.bal += x on a u8
AddU8(b, i, x, chk) ==
    IF b[i].bal + x >= U8
    THEN IF chk
         THEN [balances |-> b, panic |-> TRUE]
         ELSE [balances |-> [b EXCEPT ![i].bal = (b[i].bal + x) - U8], panic |-> FALSE]
    ELSE [balances |-> [b EXCEPT ![i].bal = b[i].bal + x], panic |-> FALSE]

\* update_bal, creating the account with the amount it was given
update_bal_amount(b, addr, bal, reduce, chk) ==
    LET i == get_bal(b, addr)
    IN  IF i # 0
        THEN IF bal # None
             THEN IF reduce
                  THEN SubU8(b, i, bal[1], chk)
                  ELSE AddU8(b, i, bal[1], chk)
             ELSE AddU8(b, i, REWARD, chk)
        ELSE [balances |-> Append(b, [addr |-> addr,
                                      bal |-> IF bal # None THEN bal[1] ELSE BOOTSTRAP]),
              panic |-> FALSE]

\* Blockchain::update_bal
update_bal(b, addr, bal, reduce, chk) ==
    LET i == get_bal(b, addr)
    IN  IF i # 0
        THEN IF bal # None
             THEN IF reduce
                  THEN SubU8(b, i, bal[1], chk)
                  ELSE AddU8(b, i, bal[1], chk)
             ELSE AddU8(b, i, REWARD, chk)
        ELSE [balances |-> Append(b, [addr |-> addr, bal |-> BOOTSTRAP]), panic |-> FALSE]

(***************************************************************************)
(* Blockchain::add_block.                                                  *)
(***************************************************************************)
\* the coinbase transaction add_block pushes onto the caller's list
coinbase(miner) == Trasaction(0, "Master", miner, COINBASE_VALUE, <<>>)

\* the balance check left out: no transaction is skipped
insufficient_never(acc_bal, tran) == FALSE

\* the balance check of the loop: TRUE when the transaction is skipped
insufficient(acc_bal, tran) == acc_bal < as_u8(tran.value)

\* what the loop did with one transaction: the ledger before it (pre), after
\* its debit (debited) and after its credit (post), and the payload after it
TxEvent(tran, acc_bal, applied, pre, debited, post, data, panic) ==
    [tran |-> tran, acc_bal |-> acc_bal, applied |-> applied, pre |-> pre,
     debited |-> debited, post |-> post, data |-> data, panic |-> panic]

\* iteration, the payload taking the transaction before the balance check
iteration_logs_skipped(b, data, tran, chk) ==
    LET acc_bal == acc_bal_of(b, tran.from)
        s == to_str(tran)
    IN  IF insufficient(acc_bal, tran)
        THEN TxEvent(tran, acc_bal, FALSE, b, b, b, data \o s, FALSE)
        ELSE LET d == update_bal(b, tran.from, Some(as_u8(tran.value)), TRUE, chk)
                 c == update_bal(d.balances, tran.to, Some(as_u8(tran.value)), FALSE, chk)
             IN  IF d.panic
                 THEN TxEvent(tran, acc_bal, TRUE, b, b, b, data \o s, TRUE)
                 ELSE TxEvent(tran, acc_bal, TRUE, b, d.balances, c.balances,
                              data \o s, c.panic)

\* one iteration of `for tran in transactions`
iteration(b, data, tran, chk) ==
    LET acc_bal == acc_bal_of(b, tran.from)
    IN  IF insufficient(acc_bal, tran)
        THEN TxEvent(tran, acc_bal, FALSE, b, b, b, data, FALSE)
        ELSE Bind(to_str(tran), LAMBDA s :
             Bind(update_bal(b, tran.from, Some(as_u8(tran.value)), TRUE, chk), LAMBDA d :
                 IF d.panic
                 THEN TxEvent(tran, acc_bal, TRUE, b, b, b, data \o s, TRUE)
                 ELSE Bind(update_bal(d.balances, tran.to, Some(as_u8(tran.value)),
                                      FALSE, chk), LAMBDA c :
                      TxEvent(tran, acc_bal, TRUE, b, d.balances, c.balances,
                              data \o s, c.panic))))

\* the loop over the transactions not yet processed; `events` holds what the
\* iterations before did.  A panic ends the loop.
RECURSIVE process(_, _, _, _, _)
process(b, data, transactions, events, chk) ==
    IF transactions = <<>>
    THEN [balances |-> b, data |-> data, events |-> events, panic |-> FALSE]
    ELSE Bind(iteration(b, data, Head(transactions), chk), LAMBDA e :
             IF e.panic
             THEN [balances |-> e.post, data |-> e.data,
                   events |-> Append(events, e), panic |-> TRUE]
             ELSE process(e.post, e.data, Tail(transactions), Append(events, e), chk))

\* previous_hash_of, taking the hash of the first block for that of the last
previous_hash_first(c) == IF Len(c) = 0 THEN <<"0">> ELSE c[1].hash

\* the previous_hash of the block add_block is building
previous_hash_of(c) == IF Len(c) = 0 THEN <<"0">> ELSE c[Len(c)].hash

\* what one add_block call did.  kind: "ok" (the block was pushed), "panic" or
\* "hang"; why: the place that panicked; order: the operations in the order
\* they ran; events: one TxEvent per transaction processed; balances and chain:
\* the fields of self when the call ended
AddResult(kind, why, b, c, events, order, data) ==
    [kind |-> kind, why |-> why, balances |-> b, chain |-> c, events |-> events,
     order |-> order, data |-> data]

add_block(b, c, miner, transactions, chk) ==
    LET index == Len(c)
        previous_hash == previous_hash_of(c)
    IN  Bind(IF index = 0
             THEN [balances |-> b, data |-> <<"Genesis Block">>, events |-> <<>>,
                   panic |-> FALSE]
             ELSE process(b, <<>>, Append(transactions, coinbase(miner)), <<>>, chk),
             LAMBDA loop :
        LET ran == [i \in 1..Len(loop.events) |-> "tran"]
        IN  IF loop.panic
            THEN AddResult("panic", "update_bal", loop.balances, c, loop.events, ran,
                           loop.data)
            ELSE IF index >= Len(HASHES)
            THEN AddResult("panic", "unwrap", loop.balances, c, loop.events,
                           ran \o <<"btc_hash">>, loop.data)
            ELSE Bind(Block_new(index, loop.data, previous_hash, HASHES[index + 1],
                                DIFFICULTY, chk), LAMBDA built :
                 IF built.kind # "ok"
                 THEN AddResult(built.kind, "calculate_hash", loop.balances, c,
                                loop.events, ran \o <<"btc_hash", "seal">>, loop.data)
                 ELSE Bind(update_bal(loop.balances, miner, None, FALSE, chk), LAMBDA paid :
                      IF paid.panic
                      THEN AddResult("panic", "reward", paid.balances, c, loop.events,
                                     ran \o <<"btc_hash", "seal", "reward">>, loop.data)
                      ELSE AddResult("ok", "", paid.balances, Append(c, built.block),
                                     loop.events,
                                     ran \o <<"btc_hash", "seal", "reward", "push">>,
                                     loop.data))))

(***************************************************************************)
(* The state machine.                                                      *)
(*   balances, chain  the fields of the Blockchain                         *)
(*   checked          the build: TRUE when integer overflow panics         *)
(*   status           "new": the struct is built and the genesis call of   *)
(*                    Blockchain::new is not made yet; "ready"; "panicked" *)
(*                    and "hung": the last call did not return             *)
(*   call             the last operation: its arguments, self before it    *)
(*                    and what it did                                      *)
(***************************************************************************)
NoCall == [op |-> "none"]

AddCall(miner, transactions, r) ==
    [op |-> "add_block", miner |-> miner, transactions |-> transactions,
     pre_balances |-> balances, pre_chain |-> chain,
     kind |-> r.kind, why |-> r.why, events |-> r.events, order |-> r.order,
     data |-> r.data]

\* the call add_block(miner, transactions) on the current state
DoAddBlock(miner, transactions) ==
    \E r \in {add_block(balances, chain, miner, transactions, checked)} :
        /\ balances' = r.balances
        /\ chain' = r.chain
        /\ status' = CASE r.kind = "ok" -> "ready"
                       [] r.kind = "panic" -> "panicked"
                       [] OTHER -> "hung"
        /\ call' = AddCall(miner, transactions, r)
        /\ UNCHANGED checked

\* Blockchain::new: the genesis call
New ==
    /\ status = "new"
    /\ DoAddBlock("Master", <<>>)

\* the seed ledgers Blockchain::new is given
Seeds ==
    { BALANCES,
      << [addr |-> "Master", bal |-> 240], [addr |-> "Alice", bal |-> 20] >>,
      << [addr |-> "Alice", bal |-> 20], [addr |-> "Master", bal |-> 5] >> }

\* the lists of at most n elements of S
SeqsUpTo(S, n) == UNION { [1..k -> S] : k \in 0..n }

(***************************************************************************)
(* Spec: main's ledger, any number of add_block calls, each with one of a  *)
(* few batches, up to the call that finds the reference hashes exhausted.  *)
(***************************************************************************)
Batch ==
    << Trasaction(1, "Alice", "Bob", 0, <<"Block 1 Data">>),
       Trasaction(2, "Bob", "Master", 10, <<>>),
       Trasaction(3, "Alice", "Master", 20, <<>>) >>

\* the calls made: <<miner, transactions>>
Calls ==
    { <<"Bob", <<Trasaction(1, "Alice", "Bob", 10, <<"Block 1 Data">>)>> >>,
      <<"Master", Batch>>,
      <<"Bob", <<>> >> }

Init ==
    /\ balances = BALANCES
    /\ chain = <<>>
    /\ checked \in BOOLEAN
    /\ status = "new"
    /\ call = NoCall

AddBlock ==
    /\ status = "ready"
    /\ \E args \in Calls : DoAddBlock(args[1], args[2])

Next == New \/ AddBlock

Spec == Init /\ [][Next]_vars

(***************************************************************************)
(* SpecBatch: any seed ledger, and after the genesis call one add_block    *)
(* call with any miner and any list of at most MaxTxs transactions.        *)
(***************************************************************************)
Senders == {"Alice", "Zed"}
Receivers == {"Alice", "Bob", "Master"}
Values == {0, 10, 30, 266}
Miners == {"Master", "Bob"}

TxMenu == { Trasaction(1, from, to, value, <<>>) :
                from \in Senders, to \in Receivers, value \in Values }

InitBatch ==
    /\ balances \in Seeds
    /\ chain = <<>>
    /\ checked \in BOOLEAN
    /\ status = "new"
    /\ call = NoCall

AddBatch ==
    /\ status = "ready"
    /\ Len(chain) = 1
    /\ \E miner \in Miners, transactions \in SeqsUpTo(TxMenu, MaxTxs) :
           DoAddBlock(miner, transactions)

NextBatch == New \/ AddBatch

SpecBatch == InitBatch /\ [][NextBatch]_vars

(***************************************************************************)
(* SpecLedger: update_bal called on its own, on any seed ledger.           *)
(***************************************************************************)
Amounts == {0, 7, 30, 250}
Addrs == {"Master", "Alice", "Bob"}

InitLedger ==
    /\ balances \in Seeds
    /\ chain = <<>>
    /\ checked \in BOOLEAN
    /\ status = "ledger"
    /\ call = NoCall

\* the number of update_bal calls made so far
Ops == IF call.op = "update_bal" THEN call.n ELSE 0

UpdateBal ==
    /\ status = "ledger"
    /\ Ops < MaxOps
    /\ \E addr \in Addrs, bal \in {None} \cup { Some(v) : v \in Amounts },
          reduce \in BOOLEAN :
          \E r \in {update_bal(balances, addr, bal, reduce, checked)} :
              /\ balances' = r.balances
              /\ status' = IF r.panic THEN "panicked" ELSE "ledger"
              /\ call' = [op |-> "update_bal", n |-> Ops + 1, addr |-> addr,
                          bal |-> bal, reduce |-> reduce, pre_balances |-> balances,
                          panic |-> r.panic]
              /\ UNCHANGED <<chain, checked>>

NextLedger == UpdateBal

SpecLedger == InitLedger /\ [][NextLedger]_vars

(***************************************************************************)
(* SpecSeal: the sealer called on its own, with any difficulty and any     *)
(* reference hash, before the chain of Spec is built.                      *)
(***************************************************************************)
SealTimestamps == { <<"0">>, <<"2", "0", "2", "6">> }
SealData == { <<>>, <<"Genesis Block">>, to_str(coinbase("Bob")) }
SealPrevious == { <<"0">>, HASHES[1] }
\* reference hashes: those of the program, one whose tail no digest has, and a
\* short one
SealReferences ==
    { HASHES[i] : i \in 1..Len(HASHES) } \cup { <<"a", "b", "c", "d", "e">>, <<"0", "7">> }

Seal ==
    /\ status = "new"
    /\ call = NoCall
    /\ \E index \in 0..MaxSealIndex, timestamp \in SealTimestamps, data \in SealData,
          previous_hash \in SealPrevious, btc_hash \in SealReferences :
       \E difficulty \in 0..(Len(btc_hash) + 1) :
          /\ call' = [op |-> "calculate_hash", index |-> index,
                      timestamp |-> timestamp, data |-> data,
                      previous_hash |-> previous_hash, btc_hash |-> btc_hash,
                      difficulty |-> difficulty,
                      result |-> calculate_hash(index, timestamp, data, previous_hash,
                                                btc_hash, difficulty, checked)]
          /\ UNCHANGED <<balances, chain, checked, status>>

NextSeal == Seal \/ New \/ AddBlock

SpecSeal == Init /\ [][NextSeal]_vars

(***************************************************************************)
(* SpecCoinbase: seed ledgers whose Master is nearly empty, and add_block  *)
(* calls that take Master's last coins before the coinbase is processed.   *)
(***************************************************************************)
CoinbaseSeeds ==
    { << [addr |-> "Alice", bal |-> 20], [addr |-> "Master", bal |-> 5] >>,
      << [addr |-> "Master", bal |-> 5], [addr |-> "Bob", bal |-> 230] >> }

CoinbaseCalls ==
    { <<"Bob", <<>> >>,
      <<"Bob", <<Trasaction(1, "Master", "Alice", 10, <<>>)>> >>,
      <<"Master", <<Trasaction(1, "Master", "Alice", 10, <<>>)>> >> }

InitCoinbase ==
    /\ balances \in CoinbaseSeeds
    /\ chain = <<>>
    /\ checked \in BOOLEAN
    /\ status = "new"
    /\ call = NoCall

AddCoinbase ==
    /\ status = "ready"
    /\ \E args \in CoinbaseCalls : DoAddBlock(args[1], args[2])

NextCoinbase == New \/ AddCoinbase

SpecCoinbase == InitCoinbase /\ [][NextCoinbase]_vars

(***************************************************************************)
(* The properties.                                                         *)
(***************************************************************************)
\* whether the ledger b holds an account of address a
Known(b, a) == \E i \in 1..Len(b) : b[i].addr = a

\* the balance of address a in the ledger b, 0 when it has no account
BalanceIn(b, a) ==
    IF Known(b, a) THEN b[CHOOSE i \in 1..Len(b) : b[i].addr = a].bal ELSE 0

\* the sum of the balances of the ledger b
RECURSIVE Total(_)
Total(b) == IF b = <<>> THEN 0 ELSE Head(b).bal + Total(Tail(b))

\* the last d characters of the string r, one by one
LastChars(r, d) == [j \in 1..d |-> r[Len(r) - d + j]]

\* the string h ends with the last d characters of the string r
EndsWithTail(h, r, d) ==
    /\ d <= Len(h)
    /\ \A j \in 1..d : h[Len(h) - d + j] = r[Len(r) - d + j]

\* C1. Chain linkage: in every state reached by Blockchain::new and add_block
\* calls, the first block's previous_hash is "0" and every later block's
\* previous_hash is the sealed hash of the block before it.
C1_ChainLinkage ==
    /\ Len(chain) >= 1 => chain[1].previous_hash = <<"0">>
    /\ \A i \in 2..Len(chain) : chain[i].previous_hash = chain[i - 1].hash

\* a chain of four blocks whose hashes all differ
C1_Witness ==
    /\ Len(chain) = 4
    /\ \A i, j \in 1..4 : i # j => chain[i].hash # chain[j].hash

\* C2. Seal target: whenever the sealer returns a hash for a difficulty d and a
\* reference hash r with d <= Len(r), the hash ends with the last d characters
\* of r; and every block of the chain has a hash that ends with the last
\* `difficulty` characters of its btc_hash.
C2_SealTarget ==
    /\ (call.op = "calculate_hash" /\ call.result.kind = "ok")
           => /\ call.difficulty <= Len(call.btc_hash)
              /\ EndsWithTail(call.result.hash, call.btc_hash, call.difficulty)
    /\ \A i \in 1..Len(chain) :
           /\ chain[i].difficulty <= Len(chain[i].btc_hash)
           /\ EndsWithTail(chain[i].hash, chain[i].btc_hash, chain[i].difficulty)

\* the sealer returned after a search of several nonces, for a difficulty of
\* the whole length of the reference hash
C2_Witness ==
    /\ call.op = "calculate_hash"
    /\ call.result.kind = "ok"
    /\ call.difficulty = Len(call.btc_hash)
    /\ call.difficulty >= DIFFICULTY
    /\ call.result.nonce >= 2

\* C8. Unknown-address credit: update_bal with reduce = false on an address
\* that has no account, with any amount or none, appends an account of that
\* address with balance exactly 10 and changes no other account.
C8_UnknownCredit ==
    (/\ call.op = "update_bal"
     /\ ~call.reduce
     /\ ~Known(call.pre_balances, call.addr))
        => /\ ~call.panic
           /\ Len(balances) = Len(call.pre_balances) + 1
           /\ \A i \in 1..Len(call.pre_balances) : balances[i] = call.pre_balances[i]
           /\ balances[Len(balances)] = [addr |-> call.addr, bal |-> 10]

\* an amount of 250 was credited to an address without an account
C8_Witness ==
    /\ call.op = "update_bal"
    /\ ~call.reduce
    /\ call.bal = Some(250)
    /\ ~Known(call.pre_balances, call.addr)
    /\ BalanceIn(balances, call.addr) = 10

\* the events of the last add_block call, and the payload before event i
Events == IF call.op = "add_block" THEN call.events ELSE <<>>
DataBefore(i) == IF i = 1 THEN <<>> ELSE Events[i - 1].data

\* the addresses that have an account in the ledger b
Accounts(b) == { b[i].addr : i \in 1..Len(b) }

\* C3. Rejection: a transaction whose value (a u128) is greater than its
\* sender's balance when it is processed (0 for an unknown sender) leaves the
\* ledger as it was and adds nothing to the payload.
C3_Rejection ==
    \A i \in 1..Len(Events) :
        Events[i].tran.value > Events[i].acc_bal
            => /\ ~Events[i].applied
               /\ Events[i].post = Events[i].pre
               /\ Events[i].data = DataBefore(i)

\* C4. Transfer effect: a transaction add_block applies, the sender's balance
\* being at least its value, takes exactly value from the sender's balance
\* and then adds exactly value to the receiver's balance, the receiver known
\* or not, the same as the sender or not.
C4_TransferEffect ==
    \A i \in 1..Len(Events) :
        LET e == Events[i]
        IN  (e.applied /\ ~e.panic /\ e.acc_bal >= e.tran.value)
                => /\ BalanceIn(e.debited, e.tran.from)
                          = BalanceIn(e.pre, e.tran.from) - e.tran.value
                   /\ BalanceIn(e.post, e.tran.to)
                          = BalanceIn(e.debited, e.tran.to) + e.tran.value

\* C5. Supply conservation: an add_block call on a non-empty chain that
\* appends its block leaves the sum of all balances 10 above what it was.
C5_SupplyConservation ==
    (call.op = "add_block" /\ call.pre_chain # <<>> /\ call.kind = "ok")
        => Total(balances) = Total(call.pre_balances) + 10

\* C6. Failure atomicity: an add_block call made on a chain that holds a
\* block for every reference hash fails, and leaves the chain and every
\* balance as they were.  (A call that a u8 overflow in update_bal stops
\* before it looks for its reference hash is left aside.)
C6_FailureAtomicity ==
    (/\ call.op = "add_block"
     /\ Len(call.pre_chain) = Len(HASHES)
     /\ call.why # "update_bal")
        => /\ call.kind # "ok"
           /\ chain = call.pre_chain
           /\ balances = call.pre_balances

\* C7. Checked debit: update_bal with reduce = true on an existing account,
\* for an amount above its balance, fails and leaves the balance as it was.
C7_CheckedDebit ==
    (/\ call.op = "update_bal"
     /\ call.reduce
     /\ call.bal # None
     /\ Known(call.pre_balances, call.addr)
     /\ call.bal[1] > BalanceIn(call.pre_balances, call.addr))
        => /\ call.panic
           /\ balances = call.pre_balances

\* C9. Account lifecycle: within an add_block call no debit and no skipped
\* transaction creates an account, a credit creates at most the receiver's,
\* no account is removed and no address has two accounts.
C9_AccountLifecycle ==
    /\ \A i, j \in 1..Len(balances) : i # j => balances[i].addr # balances[j].addr
    /\ call.op = "add_block" => Accounts(call.pre_balances) \subseteq Accounts(balances)
    /\ \A i \in 1..Len(Events) :
           LET e == Events[i]
           IN  /\ Accounts(e.debited) = Accounts(e.pre)
               /\ Accounts(e.pre) \subseteq Accounts(e.post)
               /\ Accounts(e.post) \subseteq Accounts(e.pre) \cup {e.tran.to}
               /\ ~e.applied => e.post = e.pre

\* the ledger when the loop of the last add_block call ended
AfterLoop == IF Events = <<>> THEN call.pre_balances ELSE Events[Len(Events)].post

\* C10. Reward ordering: an add_block call that appends its block has run, in
\* this order, its transactions, the seal, one reward and the push; the
\* reward adds 10 to the miner's balance as the loop left it, or creates the
\* miner's account with balance 10, and changes nothing else.
C10_RewardOrdering ==
    (call.op = "add_block" /\ call.kind = "ok")
        => /\ call.order = [i \in 1..Len(Events) |-> "tran"]
                               \o <<"btc_hash", "seal", "reward", "push">>
           /\ BalanceIn(balances, call.miner) = BalanceIn(AfterLoop, call.miner) + 10
           /\ \A a \in Accounts(balances) \ {call.miner} :
                  BalanceIn(balances, a) = BalanceIn(AfterLoop, a)
           /\ Accounts(balances) = Accounts(AfterLoop) \cup {call.miner}

\* C11. Coinbase solvency: in an add_block call on a non-empty chain that has
\* a reference hash left, the last transaction processed is the coinbase
\* {from: "Master", to: miner, value: 10}; when Master's balance is below 10
\* at that moment the coinbase is skipped (ledger and payload as they were),
\* and the block is still appended and the miner's balance raised by the
\* reward of 10.
C11_CoinbaseSolvency ==
    (/\ call.op = "add_block"
     /\ call.pre_chain # <<>>
     /\ Len(call.pre_chain) < Len(HASHES)
     /\ Len(Events) = Len(call.transactions) + 1)
        => LET e == Events[Len(Events)]
           IN  /\ e.tran = coinbase(call.miner)
               /\ e.acc_bal < 10
                      => /\ ~e.applied
                         /\ e.post = e.pre
                         /\ e.data = DataBefore(Len(Events))
                         /\ call.kind = "ok"
                         /\ Len(chain) = Len(call.pre_chain) + 1
                         /\ BalanceIn(balances, call.miner)
                                = BalanceIn(e.post, call.miner) + 10

\* C12. Genesis leaves the ledger alone: the add_block call made on the empty
\* chain by Blockchain::new applies no transaction and leaves every balance
\* at its seed value.
C12_GenesisLedger ==
    (call.op = "add_block" /\ call.pre_chain = <<>>)
        => /\ Events = <<>>
           /\ balances = call.pre_balances

\* the transactions of main's first add_block call
Demo == << Trasaction(1, "Alice", "Bob", 10, <<"Block 1 Data">>) >>

\* C13. Demo scenario: from the seed {Master: 150, Alice: 20}, once the
\* genesis block is built and add_block("Bob", [Alice->Bob value 10]) has
\* completed, Alice has 10, Bob has 30 and Master has 140.
C13_DemoScenario ==
    (/\ call.op = "add_block"
     /\ Len(call.pre_chain) = 1
     /\ call.miner = "Bob"
     /\ call.transactions = Demo)
        => /\ call.kind = "ok"
           /\ BalanceIn(balances, "Alice") = 10
           /\ BalanceIn(balances, "Bob") = 30
           /\ BalanceIn(balances, "Master") = 140

\* the digest the sealer computes for the nonce n in the last sealer call,
\* and whether it ends with the target of that call
SealDigest(n) ==
    Digest(header(call.index, call.timestamp, call.data, call.previous_hash, n))
SealMatches(n) ==
    ends_with(SealDigest(n), LastChars(call.btc_hash, call.difficulty))

\* the nonces the counter takes before it reaches r, counting up from 0
TriedBefore(r) ==
    IF r >= 0 THEN 0..(r - 1) ELSE (0..NonceMax) \cup ((0 - NonceMax - 1)..(r - 1))

\* C15. First-match nonce: a sealer call that returns gives the digest of
\* index, timestamp, payload, previous_hash and nonce for the first nonce,
\* counting up from 0, whose digest ends with the target: the hash returned
\* is the digest of the nonce returned, it ends with the target, and no nonce
\* tried before it has a digest that does.
C15_FirstMatch ==
    (call.op = "calculate_hash" /\ call.result.kind = "ok")
        => /\ call.result.hash = SealDigest(call.result.nonce)
           /\ SealMatches(call.result.nonce)
           /\ \A n \in TriedBefore(call.result.nonce) : ~SealMatches(n)

\* the sealer returned the nonce 0, and in another call a nonce that several
\* smaller ones did not match, for a target of at least DIFFICULTY characters
C15_Witness ==
    /\ call.op = "calculate_hash"
    /\ call.result.kind = "ok"
    /\ call.difficulty >= DIFFICULTY
    /\ call.result.nonce >= 3
    /\ \E d \in SealData :
           calculate_hash(call.index, call.timestamp, d, call.previous_hash,
                          call.btc_hash, call.difficulty, checked).nonce = 0

\* C16. Seal termination: the nonce search is not bounded: a sealer call
\* never stops or fails at a nonce whose digest does not end with the target,
\* the limit of the counter's integer type included; when some nonce from 0
\* on has a digest that ends with the target the call returns a matching
\* nonce, and add_block goes on to append its block.
C16_SealTermination ==
    /\ (call.op = "calculate_hash" /\ call.difficulty <= Len(call.btc_hash))
           => /\ call.result.kind # "panic"
              /\ call.result.kind = "ok" => SealMatches(call.result.nonce)
              /\ (\E n \in 0..NonceMax : SealMatches(n)) => call.result.kind = "ok"
    /\ call.op = "add_block" => call.why # "calculate_hash"

\* the serialized forms of the first n transactions of the last add_block
\* call that passed the balance check, one after the other
RECURSIVE Payload(_)
Payload(n) ==
    IF n = 0
    THEN <<>>
    ELSE Payload(n - 1) \o (IF Events[n].applied THEN to_str(Events[n].tran) ELSE <<>>)

\* C17. Payload composition: the payload of block 0 is "Genesis Block"
\* whatever transactions are passed; in a call on a non-empty chain the
\* transactions are processed in the caller's order with the coinbase last,
\* a transaction passes when the balance read is not below its value as a
\* u8, the payload takes the serialized form of each transaction that passes
\* (before its debit and its credit, so also when one of them panics) and of
\* no other, and the payload of the block appended is that payload.
C17_PayloadComposition ==
    call.op = "add_block" =>
        IF call.pre_chain = <<>>
        THEN /\ call.data = <<"Genesis Block">>
             /\ call.kind = "ok" => chain[1].data = <<"Genesis Block">>
             /\ \A t \in TxMenu :
                    add_block(call.pre_balances, <<>>, call.miner, <<t>>, checked).data
                        = <<"Genesis Block">>
        ELSE /\ Len(Events) <= Len(call.transactions) + 1
             /\ \A i \in 1..Len(Events) :
                    /\ Events[i].tran = Append(call.transactions, coinbase(call.miner))[i]
                    /\ Events[i].applied = (Events[i].acc_bal >= Events[i].tran.value % 256)
                    /\ Events[i].data = Payload(i)
                    /\ Events[i].panic => Events[i].applied /\ i = Len(Events)
             /\ call.data = Payload(Len(Events))
             /\ call.kind = "ok"
                    => /\ Len(Events) = Len(call.transactions) + 1
                       /\ chain[Len(chain)].data = call.data

\* a block was appended whose call skipped its first transaction and applied
\* its second one and the coinbase
C17_Witness ==
    /\ call.op = "add_block"
    /\ call.kind = "ok"
    /\ Len(Events) = 3
    /\ ~Events[1].applied
    /\ Events[2].applied
    /\ Events[3].applied
    /\ chain[Len(chain)].data = to_str(Events[2].tran) \o to_str(coinbase(call.miner))

\* C18. Append-only chain: an add_block call that completes appends exactly
\* one block, whose index is the length of the chain before the call, whose
\* btc_hash is the entry of HASHES at that index and whose difficulty is 4,
\* and leaves the blocks before it as they were; a call that does not
\* complete leaves the chain as it was; so the block at position i has
\* index i (from 0) and the chain never holds more than 8 blocks.
C18_AppendOnly ==
    /\ call.op = "add_block"
           => IF call.kind = "ok"
              THEN /\ Len(chain) = Len(call.pre_chain) + 1
                   /\ SubSeq(chain, 1, Len(call.pre_chain)) = call.pre_chain
                   /\ chain[Len(chain)].index = Len(call.pre_chain)
                   /\ chain[Len(chain)].btc_hash = HASHES[Len(call.pre_chain) + 1]
                   /\ chain[Len(chain)].difficulty = 4
              ELSE chain = call.pre_chain
    /\ \A i \in 1..Len(chain) : chain[i].index = i - 1
    /\ Len(chain) <= 8

\* the chain holds 8 blocks and a further call was made
C18_Witness ==
    /\ Len(chain) = 8
    /\ call.op = "add_block"
    /\ Len(call.pre_chain) = 8
    /\ call.kind = "panic"

\* C19. No underflow inside add_block: whenever the loop of add_block debits
\* a sender that has an account, the amount (the value as a u8) is not above
\* the account's balance at that moment: the subtraction neither panics nor
\* wraps, and leaves the balance lower by exactly the amount.
C19_NoUnderflow ==
    \A i \in 1..Len(Events) :
        LET e == Events[i]
            amount == e.tran.value % 256
        IN  (e.applied /\ Known(e.pre, e.tran.from))
                => /\ amount <= BalanceIn(e.pre, e.tran.from)
                   /\ ~(e.panic /\ e.debited = e.pre /\ amount > 0)
                   /\ ~(e.panic /\ e.debited = e.pre)
                          => BalanceIn(e.debited, e.tran.from)
                                 = BalanceIn(e.pre, e.tran.from) - amount

\* one batch debited the same sender twice, the second time for a value of
\* 256 or more that took the whole balance left
C19_Witness ==
    /\ Len(Events) = 3
    /\ Events[1].applied
    /\ Events[2].applied
    /\ Events[1].tran.from = Events[2].tran.from
    /\ Events[1].tran.value > 0
    /\ Events[2].tran.value >= 256
    /\ Known(Events[2].pre, Events[2].tran.from)
    /\ BalanceIn(Events[2].pre, Events[2].tran.from) = Events[2].tran.value % 256
    /\ BalanceIn(Events[2].debited, Events[2].tran.from) = 0

\* C20. No balance overflow: from the seed {Master: 150, Alice: 20}, in the
\* first 8 add_block calls (the call of Blockchain::new among them) no credit
\* and no reward pushes a balance above 255: no call panics in update_bal and
\* no addition wraps, so that a credit never lowers the receiver's balance
\* and a reward always raises the miner's.
C20_NoOverflow ==
    (call.op = "add_block" /\ Len(call.pre_chain) < 8)
        => /\ call.why \notin {"update_bal", "reward"}
           /\ \A i \in 1..Len(Events) :
                  Events[i].applied
                      => BalanceIn(Events[i].post, Events[i].tran.to)
                             >= BalanceIn(Events[i].debited, Events[i].tran.to)
           /\ call.kind = "ok"
                  => BalanceIn(balances, call.miner) > BalanceIn(AfterLoop, call.miner)

====
